---- MODULE Spec2Model ----
(***************************************************************************)
(* Model of the table inference / cleaning core of data-table-cleaner      *)
(* (src/src/App.jsx).  A string is a sequence of one-character strings, a  *)
(* row is a sequence of cells (strings), a table is a sequence of rows.    *)
(***************************************************************************)
EXTENDS Integers, Sequences, FiniteSets, TLC

VARIABLES
    text,                \* App state: textarea contents
    customDelimiter,     \* App state: explicit delimiter ("" = none)
    importedTable,       \* App state: table imported from XLSX, or null
    removeEmptyRowsOpt,  \* App state: option
    removeEmptyColsOpt,  \* App state: option
    collapseSpacesOpt,   \* App state: option
    table,               \* useMemo result: the cleaned table
    detected,            \* useMemo result: the strategy label
    pc,                  \* position of the driver that applies the functions
    data,                \* the table handed to a pure function
    out,                 \* what the pure functions returned
    fileError,           \* App state: the error message shown ("" = none)
    readers,             \* FileReaders whose read has not completed yet
    last                 \* history: the last operation and the last input supplied

vars == <<text, customDelimiter, importedTable, removeEmptyRowsOpt,
          removeEmptyColsOpt, collapseSpacesOpt, table, detected, pc, data, out,
          fileError, readers, last>>

(* ------------------------------ bounds --------------------------------- *)

\* A table's size is its number of rows plus its number of cells.
MaxTableSize == 5

\* The longest text typed into the textarea, in characters.
MaxTextLen == 4

\* The tables handed to scoreTable: at most MaxScoreRows rows of at most
\* MaxScoreCols cells.
MaxScoreRows == 3
MaxScoreCols == 4

\* The tables handed to toMarkdownTable: rows plus cells.
MaxMdSize == 5

(* --------------------------- general helpers --------------------------- *)

Max(S) == CHOOSE x \in S : \A y \in S : y <= x

Abs(n) == IF n < 0 THEN -n ELSE n

\* JS whitespace (String.prototype.trim, regex \s), restricted to the alphabet used
WhiteSpace == {" ", "\t", "\n", "\r"}

IsSpace(c) == c \in WhiteSpace

RECURSIVE trimStart(_)
trimStart(s) ==
    IF s # <<>> /\ IsSpace(Head(s)) THEN trimStart(Tail(s)) ELSE s

RECURSIVE trimEnd(_)
trimEnd(s) ==
    IF s # <<>> /\ IsSpace(s[Len(s)]) THEN trimEnd(SubSeq(s, 1, Len(s) - 1)) ELSE s

\* String.prototype.trim
trim(s) == trimEnd(trimStart(s))

\* s.replace(/\s+/g, " ")
RECURSIVE collapseRuns(_)
collapseRuns(s) ==
    IF s = <<>> THEN <<>>
    ELSE IF IsSpace(Head(s)) THEN <<" ">> \o collapseRuns(trimStart(s))
    ELSE <<Head(s)>> \o collapseRuns(Tail(s))

(* ------------------------------ cleaning ------------------------------- *)

normalizeCell(cell, collapseSpaces) ==
    IF ~collapseSpaces THEN cell
    ELSE collapseRuns(trim(cell))

\* mutant: the emptiness test forgets to trim
rowHasAnyValueNoTrim(row) == \E j \in 1..Len(row) : row[j] # <<>>

\* mutant: every() in place of some()
rowHasAnyValueEvery(row) == \A j \in 1..Len(row) : trim(row[j]) # <<>>

rowHasAnyValue(row) == \E j \in 1..Len(row) : trim(row[j]) # <<>>

\* row.filter((_, j) => keep[j]): only the indices the row has are visited
RECURSIVE filterByIndex(_, _)
filterByIndex(row, keep) ==
    IF row = <<>> THEN <<>>
    ELSE LET n == Len(row)
             front == filterByIndex(SubSeq(row, 1, n - 1), keep)
         IN  IF keep[n] THEN Append(front, row[n]) ELSE front

\* mutant: a column counts as having a value only when every row has one there
colHasValueEvery(t, maxCols) ==
    [j \in 1..maxCols |->
        \A i \in 1..Len(t) : j <= Len(t[i]) /\ trim(t[i][j]) # <<>>]

\* the colHasValue array after the double loop (row[j] ?? "" for missing cells)
colHasValue(t, maxCols) ==
    [j \in 1..maxCols |->
        \E i \in 1..Len(t) : j <= Len(t[i]) /\ trim(t[i][j]) # <<>>]

removeEmptyColumns(t) ==
    IF Len(t) = 0 THEN t
    ELSE LET maxCols == Max({Len(t[i]) : i \in 1..Len(t)})
             keep == colHasValue(t, maxCols)
         IN  [i \in 1..Len(t) |-> filterByIndex(t[i], keep)]

applyCleaning(t, collapseSpaces, removeEmptyRows, removeEmptyCols) ==
    LET norm == [i \in 1..Len(t) |->
                    [j \in 1..Len(t[i]) |-> normalizeCell(t[i][j], collapseSpaces)]]
        rows == IF removeEmptyRows THEN SelectSeq(norm, rowHasAnyValue) ELSE norm
    IN  IF removeEmptyCols THEN removeEmptyColumns(rows) ELSE rows

(* ------------------------------ parsing -------------------------------- *)

StartsWith(s, d) == Len(s) >= Len(d) /\ SubSeq(s, 1, Len(d)) = d

\* mutant: the delimiter is matched as a set of characters, not a literal
RECURSIVE splitAnyChar(_, _, _)
splitAnyChar(s, d, cur) ==
    IF s = <<>> THEN <<cur>>
    ELSE IF \E k \in 1..Len(d) : Head(s) = d[k]
         THEN <<cur>> \o splitAnyChar(Tail(s), d, <<>>)
    ELSE splitAnyChar(Tail(s), d, Append(cur, Head(s)))

\* String.prototype.split(d) for a non-empty literal d: cut at the leftmost
\* occurrence (indexOf), go on after it; cur is the part of the cell
\* already collected
RECURSIVE splitLiteral(_, _, _)
splitLiteral(s, d, cur) ==
    LET hits == {p \in 1..(Len(s) - Len(d) + 1) : SubSeq(s, p, p + Len(d) - 1) = d}
    IN  IF hits = {} THEN <<cur \o s>>
        ELSE LET p == CHOOSE h \in hits : \A g \in hits : h <= g
             IN  <<cur \o SubSeq(s, 1, p - 1)>>
                     \o splitLiteral(SubSeq(s, p + Len(d), Len(s)), d, <<>>)

RECURSIVE dropSpaces(_)
dropSpaces(s) == IF s # <<>> /\ Head(s) = " " THEN dropSpaces(Tail(s)) ELSE s

\* String.prototype.split(/ {2,}/): cut at every maximal run of 2+ spaces
RECURSIVE splitSpaceRuns(_, _)
splitSpaceRuns(s, cur) ==
    IF s = <<>> THEN <<cur>>
    ELSE IF Len(s) >= 2 /\ s[1] = " " /\ s[2] = " "
         THEN <<cur>> \o splitSpaceRuns(dropSpaces(s), <<>>)
    ELSE splitSpaceRuns(Tail(s), Append(cur, Head(s)))

includes(s, c) == \E k \in 1..Len(s) : s[k] = c

\* mutant: the delimiter handed in is ignored, every line goes through the
\* per-line checks
splitLinePerLine(line, delimiter) ==
    IF includes(line, "\t") THEN splitLiteral(line, <<"\t">>, <<>>)
    ELSE IF includes(line, ";") THEN splitLiteral(line, <<";">>, <<>>)
    ELSE IF includes(line, "|") THEN splitLiteral(line, <<"|">>, <<>>)
    ELSE splitSpaceRuns(line, <<>>)

\* delimiter <<>> stands for null and for ""
splitLine(line, delimiter) ==
    IF delimiter # <<>> THEN splitLiteral(line, delimiter, <<>>)
    ELSE IF includes(line, "\t") THEN splitLiteral(line, <<"\t">>, <<>>)
    ELSE IF includes(line, ";") THEN splitLiteral(line, <<";">>, <<>>)
    ELSE IF includes(line, "|") THEN splitLiteral(line, <<"|">>, <<>>)
    ELSE splitSpaceRuns(line, <<>>)

parseRowsSimple(lines, delimiter, collapseSpaces) ==
    [i \in 1..Len(lines) |->
        LET cells == splitLine(lines[i], delimiter)
        IN  [j \in 1..Len(cells) |-> normalizeCell(cells[j], collapseSpaces)]]

(* ------------------------------ scoring -------------------------------- *)

\* a score is a number or Infinity
Infinity == [inf |-> TRUE, val |-> 0]

Finite(n) == [inf |-> FALSE, val |-> n]

\* a < b on scores
Less(a, b) == ~a.inf /\ (b.inf \/ a.val < b.val)

\* the keys of the counts Map, in insertion order
RECURSIVE countKeys(_)
countKeys(ns) ==
    IF ns = <<>> THEN <<>>
    ELSE LET front == countKeys(SubSeq(ns, 1, Len(ns) - 1))
             n == ns[Len(ns)]
         IN  IF \E k \in 1..Len(front) : front[k] = n THEN front ELSE Append(front, n)

countOf(ns, n) == Cardinality({i \in 1..Len(ns) : ns[i] = n})

\* mutant: a later key of equal frequency replaces the mode (>= for >)
RECURSIVE pickModeLast(_, _, _)
pickModeLast(keys, ns, acc) ==
    IF keys = <<>> THEN acc
    ELSE LET freq == countOf(ns, Head(keys))
         IN  pickModeLast(Tail(keys), ns,
                 IF freq >= acc.bestCount
                 THEN [bestCount |-> freq, modeCols |-> Head(keys)] ELSE acc)

\* the loop over counts.entries(): acc is (bestCount, modeCols)
RECURSIVE pickMode(_, _, _)
pickMode(keys, ns, acc) ==
    IF keys = <<>> THEN acc
    ELSE LET freq == countOf(ns, Head(keys))
         IN  pickMode(Tail(keys), ns,
                 IF freq > acc.bestCount
                 THEN [bestCount |-> freq, modeCols |-> Head(keys)] ELSE acc)

RECURSIVE SumSeq(_)
SumSeq(ns) == IF ns = <<>> THEN 0 ELSE Head(ns) + SumSeq(Tail(ns))

IsPositive(n) == n > 0

\* mutant: the "maxCols <= 1" guard is missing
scoreTableNoGuard(t) ==
    LET rowLengths == SelectSeq([i \in 1..Len(t) |-> Len(t[i])], IsPositive)
    IN  IF Len(rowLengths) = 0 THEN Infinity
        ELSE LET m == pickMode(countKeys(rowLengths), rowLengths,
                               [bestCount |-> 0, modeCols |-> 0])
                 inconsistent == Len(rowLengths) - m.bestCount
                 raggedPenalty ==
                     SumSeq([i \in 1..Len(rowLengths) |-> Abs(rowLengths[i] - m.modeCols)])
             IN  Finite(inconsistent * 10 + raggedPenalty)

scoreTable(t) ==
    LET rowLengths == SelectSeq([i \in 1..Len(t) |-> Len(t[i])], IsPositive)
    IN  IF Len(rowLengths) = 0 THEN Infinity
        ELSE IF Max({rowLengths[i] : i \in 1..Len(rowLengths)}) <= 1 THEN Infinity
        ELSE LET m == pickMode(countKeys(rowLengths), rowLengths,
                               [bestCount |-> 0, modeCols |-> 0])
                 inconsistent == Len(rowLengths) - m.bestCount
                 raggedPenalty ==
                     SumSeq([i \in 1..Len(rowLengths) |-> Abs(rowLengths[i] - m.modeCols)])
             IN  Finite(inconsistent * 10 + raggedPenalty)

candidates ==
    << [name |-> "tabs", delim |-> <<"\t">>],
       [name |-> "pipe", delim |-> <<"|">>],
       [name |-> "semicolon", delim |-> <<";">>],
       [name |-> "spaces", delim |-> <<>>] >>

\* what each candidate pass produces: its table and its score
candidateTables(lines, collapseSpaces) ==
    [k \in 1..Len(candidates) |->
        LET parsed == parseRowsSimple(lines, candidates[k].delim, collapseSpaces)
        IN  [parsed |-> parsed, s |-> scoreTable(parsed)]]

\* mutant: the first candidate with a finite score is kept, later ones never
\* replace it
RECURSIVE chooseFromFirstFinite(_, _, _, _)
chooseFromFirstFinite(k, lines, collapseSpaces, best) ==
    IF k > Len(candidates) THEN best
    ELSE LET parsed == parseRowsSimple(lines, candidates[k].delim, collapseSpaces)
             s == scoreTable(parsed)
         IN  chooseFromFirstFinite(k + 1, lines, collapseSpaces,
                 IF best.score.inf /\ ~s.inf
                 THEN [table |-> parsed, detected |-> <<candidates[k].name>>, score |-> s]
                 ELSE best)

\* mutant: a candidate of equal score replaces the best (<= for <)
RECURSIVE chooseFromLast(_, _, _, _)
chooseFromLast(k, lines, collapseSpaces, best) ==
    IF k > Len(candidates) THEN best
    ELSE LET parsed == parseRowsSimple(lines, candidates[k].delim, collapseSpaces)
             s == scoreTable(parsed)
         IN  chooseFromLast(k + 1, lines, collapseSpaces,
                 IF ~Less(best.score, s)
                 THEN [table |-> parsed, detected |-> <<candidates[k].name>>, score |-> s]
                 ELSE best)

\* the loop over candidates, from the k-th on
RECURSIVE chooseFrom(_, _, _, _)
chooseFrom(k, lines, collapseSpaces, best) ==
    IF k > Len(candidates) THEN best
    ELSE LET parsed == parseRowsSimple(lines, candidates[k].delim, collapseSpaces)
             s == scoreTable(parsed)
         IN  chooseFrom(k + 1, lines, collapseSpaces,
                 IF Less(s, best.score)
                 THEN [table |-> parsed, detected |-> <<candidates[k].name>>, score |-> s]
                 ELSE best)

chooseBestTableSimple(lines, collapseSpaces) ==
    LET r == chooseFrom(1, lines, collapseSpaces,
                        [table |-> <<>>, detected |-> <<"auto">>, score |-> Infinity])
    IN  [table |-> r.table, detected |-> r.detected]

(* ------------------------------- useMemo ------------------------------- *)

\* text.replace(/\r\n/g, "\n"): every "\r" in front of a "\n" goes
normalizeNewlines(s) ==
    LET Stays(p) == ~(s[p] = "\r" /\ p < Len(s) /\ s[p + 1] = "\n")
        kept == SelectSeq([p \in 1..Len(s) |-> p], Stays)
    IN  [k \in 1..Len(kept) |-> s[kept[k]]]

IsNonEmpty(l) == Len(l) > 0

\* normalizedText.split("\n").filter((l) => l.length > 0)
textLines(t) == SelectSeq(splitLiteral(normalizeNewlines(t), <<"\n">>, <<>>), IsNonEmpty)

looksLikeCSV(lines) ==
    /\ Len(lines) > 0
    /\ \E i \in 1..Len(lines) : includes(lines[i], ",")
    /\ ~\E i \in 1..Len(lines) : includes(lines[i], "|") \/ includes(lines[i], ";")

\* Papa.parse(..., {skipEmptyLines: true}) is a library: the records it may
\* return for quote-free text are the lines split on the delimiter it guesses
PapaParse(lines) ==
    {[i \in 1..Len(lines) |-> splitLiteral(lines[i], d, <<>>)] : d \in {<<",">>, <<"\t">>}}

\* the raw tables the memo may hand to applyCleaning, with their labels
memoRaw(txt, delim, imported, collapseSpaces) ==
    IF imported.set /\ Len(imported.rows) > 0
    THEN {[raw |-> imported.rows, detected |-> <<"xlsx">>]}
    ELSE LET lines == textLines(txt)
         IN  IF delim # <<>>
             THEN {[raw |-> parseRowsSimple(lines, delim, collapseSpaces),
                    detected |-> <<"custom (">> \o delim \o <<")">>]}
             ELSE IF looksLikeCSV(lines)
             THEN {[raw |-> r, detected |-> <<"csv">>] : r \in PapaParse(lines)}
             ELSE LET result == chooseBestTableSimple(lines, collapseSpaces)
                  IN  {[raw |-> result.table, detected |-> result.detected]}

(* ------------------------------ markdown ------------------------------- *)

\* s.replace(/\r?\n/g, " ")
RECURSIVE replaceNewlines(_)
replaceNewlines(s) ==
    IF s = <<>> THEN <<>>
    ELSE IF StartsWith(s, <<"\r", "\n">>) THEN <<" ">> \o replaceNewlines(Tail(Tail(s)))
    ELSE IF Head(s) = "\n" THEN <<" ">> \o replaceNewlines(Tail(s))
    ELSE <<Head(s)>> \o replaceNewlines(Tail(s))

\* s.replace(/\|/g, "\\|")
RECURSIVE escapePipes(_)
escapePipes(s) ==
    IF s = <<>> THEN <<>>
    ELSE IF Head(s) = "|" THEN <<"\\", "|">> \o escapePipes(Tail(s))
    ELSE <<Head(s)>> \o escapePipes(Tail(s))

escapeMarkdownCell(s) == escapePipes(replaceNewlines(s))

\* Array.prototype.join
RECURSIVE join(_, _)
join(parts, sep) ==
    IF parts = <<>> THEN <<>>
    ELSE IF Len(parts) = 1 THEN parts[1]
    ELSE parts[1] \o sep \o join(Tail(parts), sep)

\* mutant: short rows are not padded
padRowNone(r, maxCols) == r

\* Array.from({ length: maxCols }, (_, i) => r[i] ?? "")
padRow(r, maxCols) == [j \in 1..maxCols |-> IF j <= Len(r) THEN r[j] ELSE <<>>]

\* `| ${row.join(" | ")} |`
markdownLine(row) == <<"|", " ">> \o join(row, <<" ", "|", " ">>) \o <<" ", "|">>

toMarkdownTable(t) ==
    IF Len(t) = 0 THEN <<>>
    ELSE LET maxCols == Max({Len(t[i]) : i \in 1..Len(t)})
             padded == [i \in 1..Len(t) |->
                          LET row == padRow(t[i], maxCols)
                          IN  [j \in 1..Len(row) |-> escapeMarkdownCell(row[j])]]
             header == padded[1]
             body == Tail(padded)
             headerLine == markdownLine(header)
             separatorLine == markdownLine([j \in 1..Len(header) |-> <<"-", "-", "-">>])
             bodyLines == [i \in 1..Len(body) |-> markdownLine(body[i])]
         IN  join(<<headerLine, separatorLine>> \o bodyLines, <<"\n">>)

(* ----------------------- inputs of the cleaner ------------------------- *)

\* cells: empty, blank, plain, and one that collapsing changes
CleanCells == {<<>>, <<" ">>, <<"a">>, <<" ", "b", " ", " ", "c">>}

RECURSIVE TablesOfSize(_, _)
TablesOfSize(n, cells) ==
    IF n = 0 THEN {<<>>}
    ELSE UNION {{<<r>> \o t : r \in [1..k -> cells], t \in TablesOfSize(n - k - 1, cells)} :
                    k \in 0..(n - 1)}

TablesUpTo(n, cells) == UNION {TablesOfSize(m, cells) : m \in 0..n}

\* the tables of the specification's examples
ExEmptyRowIn == << <<<<"a">>, <<"b">>>>, <<<<>>, <<>>>>, <<<<"c">>, <<"d">>>> >>
ExEmptyRowOut == << <<<<"a">>, <<"b">>>>, <<<<"c">>, <<"d">>>> >>
ExColumnsIn == << <<<<"a">>, <<>>>>, <<<<>>, <<"x">>>> >>

CleanTables == TablesUpTo(MaxTableSize, CleanCells) \cup {ExEmptyRowIn, ExColumnsIn}

null == [set |-> FALSE, rows |-> <<>>]

NoSnapshot ==
    [text |-> <<>>, customDelimiter |-> <<>>, importedTable |-> null,
     table |-> <<>>, detected |-> <<"auto">>]

NoInput == [id |-> 0, kind |-> "none", text |-> <<>>, rows |-> <<>>, ok |-> TRUE]

\* no file has been loaded, nothing typed
NoFiles ==
    /\ fileError = ""
    /\ readers = {}
    /\ last = [n |-> 0, op |-> "init", rejected |-> FALSE, clean |-> TRUE,
               before |-> NoSnapshot, input |-> NoInput]

\* the state of the first render
AppIdle ==
    /\ text = <<>>
    /\ customDelimiter = <<>>
    /\ importedTable = null
    /\ table = <<>>
    /\ detected = <<"auto">>
    /\ NoFiles

InitClean ==
    /\ AppIdle
    /\ removeEmptyRowsOpt \in BOOLEAN
    /\ removeEmptyColsOpt \in BOOLEAN
    /\ collapseSpacesOpt \in BOOLEAN
    /\ data \in CleanTables
    /\ pc = "start"
    /\ out = [once |-> <<>>, twice |-> <<>>]

\* clean(t, o)
Clean ==
    /\ pc = "start"
    /\ out' = [out EXCEPT !.once = applyCleaning(data, collapseSpacesOpt,
                                        removeEmptyRowsOpt, removeEmptyColsOpt)]
    /\ pc' = "cleaned"
    /\ UNCHANGED <<text, customDelimiter, importedTable, removeEmptyRowsOpt,
                   removeEmptyColsOpt, collapseSpacesOpt, table, detected, data,
                   fileError, readers, last>>

\* clean(clean(t, o), o)
CleanAgain ==
    /\ pc = "cleaned"
    /\ out' = [out EXCEPT !.twice = applyCleaning(out.once, collapseSpacesOpt,
                                        removeEmptyRowsOpt, removeEmptyColsOpt)]
    /\ pc' = "recleaned"
    /\ UNCHANGED <<text, customDelimiter, importedTable, removeEmptyRowsOpt,
                   removeEmptyColsOpt, collapseSpacesOpt, table, detected, data,
                   fileError, readers, last>>

NextClean == Clean \/ CleanAgain

SpecClean == InitClean /\ [][NextClean]_vars

(* ---------------------- inputs of the inference ------------------------ *)

TextChars == {"a", " ", "|", "\t", ";", ",", "\n"}

SeqsUpTo(S, n) == UNION {[1..k -> S] : k \in 0..n}

\* the texts of the specification's examples
ExCommaText == <<"a", ",", "b", "\n", "c", ",", "d">>
ExPipeText ==
    <<"N", "a", "m", "e", " ", "|", " ", "A", "g", "e", "\n",
      "A", "l", "i", "c", "e", " ", "|", " ", "2", "4", "\r", "\n",
      "B", "o", "b", " ", "|", " ", "3", "0">>
ExPipeTable ==
    << << <<"N", "a", "m", "e">>, <<"A", "g", "e">> >>,
       << <<"A", "l", "i", "c", "e">>, <<"2", "4">> >>,
       << <<"B", "o", "b">>, <<"3", "0">> >> >>

Texts == SeqsUpTo(TextChars, MaxTextLen) \cup {ExCommaText, ExPipeText}

Delimiters == {<<>>, <<",">>, <<"|">>, <<"|", "|">>}

\* what an XLSX load may have left in importedTable
ImportedTables ==
    {[set |-> TRUE, rows |-> t] : t \in TablesUpTo(3, {<<>>, <<"a">>})}

InitInfer ==
    /\ \/ /\ text \in Texts
          /\ customDelimiter \in Delimiters
          /\ importedTable = null
       \/ /\ text = <<>>
          /\ customDelimiter = <<>>
          /\ importedTable \in ImportedTables
    /\ collapseSpacesOpt \in BOOLEAN
    /\ removeEmptyRowsOpt = TRUE
    /\ removeEmptyColsOpt = TRUE
    /\ table = <<>>
    /\ detected = <<"auto">>
    /\ data = <<>>
    /\ NoFiles
    /\ pc = "start"
    /\ out = [auto |-> [table |-> <<>>, detected |-> <<"auto">>],
              passes |-> <<>>, raw |-> <<>>]

\* auto-detection applied to the lines of the text; out.passes keeps the
\* table and the score of each candidate pass
Detect ==
    /\ pc = "start"
    /\ out' = [out EXCEPT
                  !.auto = chooseBestTableSimple(textLines(text), collapseSpacesOpt),
                  !.passes = candidateTables(textLines(text), collapseSpacesOpt)]
    /\ pc' = "detected"
    /\ UNCHANGED <<text, customDelimiter, importedTable, removeEmptyRowsOpt,
                   removeEmptyColsOpt, collapseSpacesOpt, table, detected, data,
                   fileError, readers, last>>

\* the useMemo of a render: out.raw keeps the table before cleaning
Render ==
    /\ pc = "detected"
    /\ \E m \in memoRaw(text, customDelimiter, importedTable, collapseSpacesOpt) :
          /\ table' = applyCleaning(m.raw, collapseSpacesOpt,
                                    removeEmptyRowsOpt, removeEmptyColsOpt)
          /\ detected' = m.detected
          /\ out' = [out EXCEPT !.raw = m.raw]
    /\ pc' = "rendered"
    /\ UNCHANGED <<text, customDelimiter, importedTable, removeEmptyRowsOpt,
                   removeEmptyColsOpt, collapseSpacesOpt, data,
                   fileError, readers, last>>

NextInfer == Detect \/ Render

SpecInfer == InitInfer /\ [][NextInfer]_vars

(* ------------------ inputs of scoring and of markdown ------------------ *)

\* scoreTable reads row lengths only: every cell is "x"
ScoreRows == {[j \in 1..n |-> <<"x">>] : n \in 0..MaxScoreCols}

ScoreTables == SeqsUpTo(ScoreRows, MaxScoreRows)

InitScore ==
    /\ AppIdle
    /\ removeEmptyRowsOpt = TRUE
    /\ removeEmptyColsOpt = TRUE
    /\ collapseSpacesOpt = TRUE
    /\ data \in ScoreTables
    /\ pc = "start"
    /\ out = [score |-> Infinity]

Score ==
    /\ pc = "start"
    /\ out' = [score |-> scoreTable(data)]
    /\ pc' = "scored"
    /\ UNCHANGED <<text, customDelimiter, importedTable, removeEmptyRowsOpt,
                   removeEmptyColsOpt, collapseSpacesOpt, table, detected, data,
                   fileError, readers, last>>

NextScore == Score

SpecScore == InitScore /\ [][NextScore]_vars

\* cells with pipes, newlines (LF, CRLF), a lone CR and a backslash
MdCells ==
    {<<>>, <<"a">>, <<"|", "b">>, <<"a", "\r", "\n">>, <<"\n", "|">>,
     <<"\r">>, <<"\\", "|">>}

ExMdIn == << <<<<"H", "1">>, <<"H", "2">>>>, <<<<"v", "|", "1">>, <<"v", "2">>>> >>
ExMdOut ==
    <<"|", " ", "H", "1", " ", "|", " ", "H", "2", " ", "|", "\n",
      "|", " ", "-", "-", "-", " ", "|", " ", "-", "-", "-", " ", "|", "\n",
      "|", " ", "v", "\\", "|", "1", " ", "|", " ", "v", "2", " ", "|">>

MdTables == TablesUpTo(MaxMdSize, MdCells) \cup {ExMdIn}

InitMd ==
    /\ AppIdle
    /\ removeEmptyRowsOpt = TRUE
    /\ removeEmptyColsOpt = TRUE
    /\ collapseSpacesOpt = TRUE
    /\ data \in MdTables
    /\ pc = "start"
    /\ out = [md |-> <<>>]

Markdown ==
    /\ pc = "start"
    /\ out' = [md |-> toMarkdownTable(data)]
    /\ pc' = "serialized"
    /\ UNCHANGED <<text, customDelimiter, importedTable, removeEmptyRowsOpt,
                   removeEmptyColsOpt, collapseSpacesOpt, table, detected, data,
                   fileError, readers, last>>

NextMd == Markdown

SpecMd == InitMd /\ [][NextMd]_vars

(* ------------------------------ the App -------------------------------- *)

\* The number of inputs (file drops, textarea edits, example loads) a run makes.
MaxInputs == 3

maxBytes == 10 * 1024 * 1024

EXAMPLE_TEXT ==
    <<"N", "a", "m", "e", " ", "|", " ", "A", "g", "e", " ", "|",
      " ", "C", "i", "t", "y", "\n", "A", "l", "i", "c", "e", " ",
      "|", " ", "2", "4", " ", "|", " ", "L", "o", "n", "d", "o",
      "n", "\n", "B", "o", "b", " ", "|", " ", "3", "0", " ", "|",
      " ", "M", "a", "d", "r", "i", "d", "\n", "C", "a", "r", "l",
      "a", " ", "|", " ", "2", "8", " ", "|", " ", "B", "a", "r",
      "c", "e", "l", "o", "n", "a">>

\* a workbook as XLSX.read delivers it: unreadable (it throws), or its sheets
\* as arrays of rows of strings
Books ==
    {[readable |-> TRUE, sheets |-> << << <<<<"x">>, <<"y">>>> >> >>],
     [readable |-> TRUE, sheets |-> <<>>],
     [readable |-> FALSE, sheets |-> <<>>]}

NoBook == [readable |-> FALSE, sheets |-> <<>>]

\* a file: ext is file.name.split(".").pop().toLowerCase()
Files ==
    {[ext |-> e, size |-> sz, contents |-> <<"a", "|", "b">>, book |-> NoBook] :
        e \in {"csv", "txt"}, sz \in {maxBytes, maxBytes + 1}}
    \cup {[ext |-> "xlsx", size |-> sz, contents |-> <<>>, book |-> b] :
        sz \in {maxBytes, maxBytes + 1}, b \in Books}
    \cup {[ext |-> "pdf", size |-> maxBytes, contents |-> <<>>, book |-> NoBook]}

\* what the user types into the textarea
TypedTexts == {<<>>, <<"c", ";", "d">>}

\* what the user types into the delimiter field ("Auto" gives "")
TypedDelimiters == {<<>>, <<";">>}

Snapshot ==
    [text |-> text, customDelimiter |-> customDelimiter,
     importedTable |-> importedTable, table |-> table, detected |-> detected]

\* the render that follows every state change: the useMemo is recomputed
Rerender ==
    \E m \in memoRaw(text', customDelimiter', importedTable', collapseSpacesOpt) :
        /\ table' = applyCleaning(m.raw, collapseSpacesOpt,
                                  removeEmptyRowsOpt, removeEmptyColsOpt)
        /\ detected' = m.detected

Frame == UNCHANGED <<removeEmptyRowsOpt, removeEmptyColsOpt, collapseSpacesOpt, pc, data, out>>

hasAnyInput ==
    \/ Len(trim(normalizeNewlines(text))) > 0
    \/ (importedTable.set /\ Len(importedTable.rows) > 0)

\* loadFile sends the file to no reader: too large, or not csv/txt/xlsx
Rejects(f) == f.ext \notin {"xlsx", "csv", "txt"} \/ f.size > maxBytes

\* the synchronous part of loadTextFile
loadTextFile(f) ==
    /\ importedTable' = null
    /\ UNCHANGED <<text, customDelimiter>>
    /\ fileError' =
          IF f.size > maxBytes
          THEN "File too large. Please use a smaller file (<= 10MB)."
          ELSE IF f.ext \notin {"csv", "txt"}
          THEN "Unsupported file type. Please drop a .csv or .txt file."
          ELSE ""

\* the synchronous part of loadXlsxFile
loadXlsxFile(f) ==
    /\ text' = <<>>
    /\ customDelimiter' = <<>>
    /\ UNCHANGED importedTable
    /\ fileError' =
          IF f.size > maxBytes
          THEN "XLSX file too large. Please use <= 10MB or export a smaller CSV from Excel."
          ELSE ""

\* a file is dropped or chosen: loadFile, up to reader.readAs...(file)
LoadFile(f) ==
    /\ last.n < MaxInputs
    /\ IF f.ext = "xlsx" THEN loadXlsxFile(f)
       ELSE IF f.ext \in {"csv", "txt"} THEN loadTextFile(f)
       ELSE /\ fileError' = "Unsupported file type. Please use .csv, .txt, or .xlsx."
            /\ UNCHANGED <<text, customDelimiter, importedTable>>
    /\ readers' = IF Rejects(f) THEN readers
                  ELSE readers \cup {[id |-> last.n + 1, file |-> f]}
    /\ last' = [n |-> last.n + 1, op |-> "loadFile", rejected |-> Rejects(f),
                clean |-> last.clean /\ ~Rejects(f),
                before |-> Snapshot,
                input |-> IF Rejects(f) THEN last.input
                          ELSE [id |-> last.n + 1,
                                kind |-> IF f.ext = "xlsx" THEN "xlsx" ELSE "text",
                                text |-> f.contents,
                                rows |-> IF f.book.sheets = <<>> THEN <<>>
                                         ELSE f.book.sheets[1],
                                ok |-> TRUE]]
    /\ Frame
    /\ Rerender

\* the history after a read ended; failed tells whether it delivered nothing
AfterRead(r, op, failed) ==
    [last EXCEPT !.op = op, !.rejected = FALSE, !.before = NoSnapshot,
                 !.input = IF failed /\ last.input.id = r.id
                           THEN [last.input EXCEPT !.ok = FALSE] ELSE last.input]

\* reader.onload of loadTextFile
TextOnload(r) ==
    /\ r \in readers /\ r.file.ext # "xlsx"
    /\ text' = r.file.contents
    /\ customDelimiter' = <<>>
    /\ readers' = readers \ {r}
    /\ last' = AfterRead(r, "onload", FALSE)
    /\ UNCHANGED <<importedTable, fileError>>
    /\ Frame
    /\ Rerender

\* reader.onload of loadXlsxFile
XlsxOnload(r) ==
    /\ r \in readers /\ r.file.ext = "xlsx"
    /\ IF ~r.file.book.readable
       THEN /\ fileError' = "Could not read XLSX. Try saving as CSV and dropping that instead."
            /\ UNCHANGED importedTable
       ELSE IF r.file.book.sheets = <<>>
       THEN /\ fileError' = "Could not find a sheet in this XLSX."
            /\ UNCHANGED importedTable
       ELSE /\ importedTable' = [set |-> TRUE, rows |-> r.file.book.sheets[1]]
            /\ UNCHANGED fileError
    /\ readers' = readers \ {r}
    /\ last' = AfterRead(r, "onload",
                         ~r.file.book.readable \/ r.file.book.sheets = <<>>)
    /\ UNCHANGED <<text, customDelimiter>>
    /\ Frame
    /\ Rerender

\* reader.onerror of either loader
ReadError(r) ==
    /\ r \in readers
    /\ fileError' = "Could not read file."
    /\ readers' = readers \ {r}
    /\ last' = AfterRead(r, "onerror", TRUE)
    /\ UNCHANGED <<text, customDelimiter, importedTable>>
    /\ Frame
    /\ Rerender

\* textarea onChange
EditText(v) ==
    /\ last.n < MaxInputs
    /\ v # text
    /\ text' = v
    /\ importedTable' = IF importedTable.set THEN null ELSE importedTable
    /\ last' = [n |-> last.n + 1, op |-> "edit", rejected |-> FALSE,
                clean |-> last.clean, before |-> NoSnapshot,
                input |-> [id |-> last.n + 1, kind |-> "text", text |-> v,
                           rows |-> <<>>, ok |-> TRUE]]
    /\ UNCHANGED <<customDelimiter, fileError, readers>>
    /\ Frame
    /\ Rerender

\* the delimiter field and its Auto button, shown while there is input and
\* no imported table
SetCustomDelimiter(d) ==
    /\ hasAnyInput /\ ~importedTable.set
    /\ d # customDelimiter
    /\ customDelimiter' = d
    /\ last' = [last EXCEPT !.op = "delimiter", !.rejected = FALSE, !.before = NoSnapshot]
    /\ UNCHANGED <<text, importedTable, fileError, readers>>
    /\ Frame
    /\ Rerender

\* the "Try an example" button
loadExample ==
    /\ last.n < MaxInputs
    /\ text' = EXAMPLE_TEXT
    /\ customDelimiter' = <<"|">>
    /\ importedTable' = null
    /\ fileError' = ""
    /\ last' = [n |-> last.n + 1, op |-> "example", rejected |-> FALSE,
                clean |-> last.clean, before |-> NoSnapshot,
                input |-> [id |-> last.n + 1, kind |-> "text", text |-> EXAMPLE_TEXT,
                           rows |-> <<>>, ok |-> TRUE]]
    /\ UNCHANGED readers
    /\ Frame
    /\ Rerender

Init ==
    /\ AppIdle
    /\ removeEmptyRowsOpt = TRUE
    /\ removeEmptyColsOpt = TRUE
    /\ collapseSpacesOpt = TRUE
    /\ pc = "app"
    /\ data = <<>>
    /\ out = <<>>

Next ==
    \/ \E f \in Files : LoadFile(f)
    \/ \E r \in readers : TextOnload(r)
    \/ \E r \in readers : XlsxOnload(r)
    \/ \E r \in readers : ReadError(r)
    \/ \E v \in TypedTexts : EditText(v)
    \/ \E d \in TypedDelimiters : SetCustomDelimiter(d)
    \/ loadExample

Spec == Init /\ [][Next]_vars

(* ----------------------- claims about the cleaner ---------------------- *)

Cleaned == pc \in {"cleaned", "recleaned"}

Uniform(t) == \A i \in 1..Len(t) : Len(t[i]) = Len(t[1])

\* C1: with removeEmptyColumns on, the cleaned table is empty or every row
\* has the length of the first row (ragged inputs included).
C1_ColumnUniformity ==
    (Cleaned /\ removeEmptyColsOpt) => (out.once = <<>> \/ Uniform(out.once))

\* C2: with removeEmptyRows and removeEmptyColumns on, cleaning the cleaned
\* table again returns it unchanged, cell for cell.
C2_Idempotence ==
    (pc = "recleaned" /\ removeEmptyRowsOpt /\ removeEmptyColsOpt)
        => out.twice = out.once

\* a second pass over a table whose first pass removed a row and a column
C2_Witness ==
    /\ pc = "recleaned"
    /\ removeEmptyRowsOpt /\ removeEmptyColsOpt
    /\ Len(out.once) > 0 /\ Len(out.once) < Len(data)
    /\ \E i \in 1..Len(data) : Len(data[i]) > Len(out.once[1])
    /\ out.twice = out.once

\* the input rows with a cell that is non-empty after trimming
NonEmptyRows(t) ==
    {i \in 1..Len(t) : \E j \in 1..Len(t[i]) : trim(t[i][j]) # <<>>}

\* the input rows the options let survive
Survivors(t) == IF removeEmptyRowsOpt THEN NonEmptyRows(t) ELSE 1..Len(t)

\* the i-th element (in increasing order) of a set of indices
RECURSIVE Nth(_, _)
Nth(S, i) ==
    LET m == CHOOSE x \in S : \A y \in S : x <= y
    IN  IF i = 1 THEN m ELSE Nth(S \ {m}, i - 1)

\* a is b with some cells deleted
RECURSIVE IsSubseq(_, _)
IsSubseq(a, b) ==
    IF a = <<>> THEN TRUE
    ELSE IF b = <<>> THEN FALSE
    ELSE IF Head(a) = Head(b) THEN IsSubseq(Tail(a), Tail(b))
    ELSE IsSubseq(a, Tail(b))

NormRow(row) == [j \in 1..Len(row) |-> normalizeCell(row[j], collapseSpacesOpt)]

\* C7: the output rows are, in order and without duplication, the surviving
\* input rows (all rows when removeEmptyRows is off, the rows with a cell
\* non-empty after trimming when it is on), each with its cells normalized
\* and possibly some columns deleted.
C7_RowPreservation ==
    Cleaned =>
        LET S == Survivors(data)
        IN  /\ Len(out.once) = Cardinality(S)
            /\ \A p \in 1..Len(out.once) :
                   /\ IsSubseq(out.once[p], NormRow(data[Nth(S, p)]))
                   /\ ~removeEmptyColsOpt => out.once[p] = NormRow(data[Nth(S, p)])
            /\ (data = ExEmptyRowIn /\ removeEmptyRowsOpt) => out.once = ExEmptyRowOut

\* a middle row is dropped and rows remain on both sides of it
C7_Witness ==
    /\ Cleaned /\ removeEmptyRowsOpt
    /\ data = ExEmptyRowIn
    /\ out.once = ExEmptyRowOut

\* the cells of a row at the indices of J, in order
RECURSIVE Pick(_, _)
Pick(row, J) ==
    IF row = <<>> THEN <<>>
    ELSE LET n == Len(row)
             front == Pick(SubSeq(row, 1, n - 1), J)
         IN  IF n \in J THEN Append(front, row[n]) ELSE front

\* the maximum row length of a table
Width(t) == IF t = <<>> THEN 0 ELSE Max({Len(t[i]) : i \in 1..Len(t)})

\* C8: with removeEmptyColumns on, column j is kept iff some row that
\* survived row removal has a cell at j that is non-empty after trimming.
C8_ColumnRemoval ==
    (Cleaned /\ removeEmptyColsOpt) =>
        LET S == Survivors(data)
            KeptCols == {j \in 1..Width(data) :
                            \E i \in S : j <= Len(data[i]) /\ trim(data[i][j]) # <<>>}
        IN  /\ Len(out.once) = Cardinality(S)
            /\ \A p \in 1..Len(out.once) :
                   out.once[p] = Pick(NormRow(data[Nth(S, p)]), KeptCols)
            /\ data = ExColumnsIn => out.once = ExColumnsIn

\* a column is dropped, another kept, with both removals on
C8_Witness ==
    /\ Cleaned /\ removeEmptyColsOpt /\ removeEmptyRowsOpt
    /\ Len(data) >= 2 /\ Len(out.once) >= 1
    /\ Len(out.once[1]) >= 1
    /\ Len(out.once) < Len(data)
    /\ \E i \in 1..Len(data) : Len(data[i]) > Len(out.once[1])

(* ---------------------- claims about the inference --------------------- *)

Detected == pc \in {"detected", "rendered"}

Lines == textLines(text)

\* the positions of line where the literal d occurs
Matches(line, d) ==
    {p \in 1..Len(line) :
        p + Len(d) - 1 <= Len(line) /\ SubSeq(line, p, p + Len(d) - 1) = d}

\* the occurrences a left-to-right scan cuts at: those that overlap no
\* earlier cut
Cuts(line, d) ==
    CHOOSE T \in SUBSET Matches(line, d) :
        \A p \in Matches(line, d) :
            p \in T <=> ~\E q \in T : q < p /\ p < q + Len(d)

\* the pieces of line between the cuts
LiteralCells(line, d) ==
    LET T == Cuts(line, d)
        n == Cardinality(T)
    IN  [k \in 1..(n + 1) |->
            SubSeq(line,
                   IF k = 1 THEN 1 ELSE Nth(T, k - 1) + Len(d),
                   IF k = n + 1 THEN Len(line) ELSE Nth(T, k) - 1)]

\* every line cut at the literal d, cells normalized under collapseSpaces
LiteralTable(lines, d) ==
    [i \in 1..Len(lines) |-> NormRow(LiteralCells(lines[i], d))]

ExCommaTable == << <<<<"a">>, <<"b">>>>, <<<<"c">>, <<"d">>>> >>

CustomPath == pc = "rendered" /\ importedTable = null /\ customDelimiter # <<>>

\* C3 as stated: with an explicit delimiter d every line is split on the
\* literal d, whatever the text looks like, and the label is custom(d).
C3_ExplicitDelimiter_Original ==
    CustomPath =>
        /\ out.raw = LiteralTable(Lines, customDelimiter)
        /\ detected = <<"custom(">> \o customDelimiter \o <<")">>

\* C3 amended: with an explicit delimiter d every line is split on the
\* literal d (no scoring, no CSV classification; cells normalized when
\* collapseSpaces is on) and the label is "custom (d)", with a space
\* before the parenthesis.
C3_ExplicitDelimiter ==
    CustomPath =>
        /\ out.raw = LiteralTable(Lines, customDelimiter)
        /\ detected = <<"custom (">> \o customDelimiter \o <<")">>
        /\ (text = ExCommaText /\ customDelimiter = <<",">> /\ ~collapseSpacesOpt)
               => out.raw = ExCommaTable

\* the example: comma-looking text, split by the explicit comma
C3_Witness ==
    /\ CustomPath
    /\ text = ExCommaText /\ customDelimiter = <<",">> /\ ~collapseSpacesOpt
    /\ looksLikeCSV(Lines)
    /\ out.raw = ExCommaTable
    /\ detected = <<"custom (", ",", ")">>

HasSpaceRun(line) == \E k \in 1..(Len(line) - 1) : line[k] = " " /\ line[k + 1] = " "

NoDelimiter(line) ==
    /\ ~includes(line, "\t") /\ ~includes(line, "|") /\ ~includes(line, ";")
    /\ ~HasSpaceRun(line)

NoDelimiterInput == Len(Lines) > 0 /\ \A i \in 1..Len(Lines) : NoDelimiter(Lines[i])

\* C4 as stated: lines without any delimiter come back as one one-cell row
\* per line.
C4_NoDelimiterFallback_Original ==
    (Detected /\ NoDelimiterInput) =>
        /\ Len(out.auto.table) = Len(Lines)
        /\ \A i \in 1..Len(out.auto.table) : Len(out.auto.table[i]) = 1

\* C4 amended: on lines without any delimiter no candidate is selected:
\* auto-detection does not fail and returns the empty table with the
\* label auto.
C4_NoDelimiterFallback ==
    (Detected /\ NoDelimiterInput) =>
        out.auto = [table |-> <<>>, detected |-> <<"auto">>]

\* two lines of plain words
C4_Witness ==
    /\ Detected /\ NoDelimiterInput
    /\ Len(Lines) = 2
    /\ out.auto = [table |-> <<>>, detected |-> <<"auto">>]

CandidateNames == {<<candidates[k].name>> : k \in 1..Len(candidates)}

\* C5 as stated: auto-detection always labels its result tabs, pipe,
\* semicolon or spaces, and every label shown is one of those, custom(d),
\* csv or xlsx.
C5_ClosedLabelSet_Original ==
    /\ Detected => out.auto.detected \in CandidateNames
    /\ pc = "rendered" =>
          detected \in CandidateNames \cup {<<"csv">>, <<"xlsx">>}
                        \cup {<<"custom(">> \o d \o <<")">> : d \in Delimiters}

\* some row of the k-th candidate's table has more than one cell
CandidateSplits(k) ==
    LET parsed == parseRowsSimple(Lines, candidates[k].delim, collapseSpacesOpt)
    IN  \E i \in 1..Len(parsed) : Len(parsed[i]) > 1

\* C5 amended: auto-detection returns the label auto with the empty table
\* when no candidate splits any line (the empty input included), and
\* otherwise one of tabs, pipe, semicolon, spaces with the raw table of
\* that candidate; every label shown is one of tabs, pipe, semicolon,
\* spaces, auto, "custom (d)", csv, xlsx.
C5_ClosedLabelSet ==
    /\ Detected =>
          IF \A k \in 1..Len(candidates) : ~CandidateSplits(k)
          THEN out.auto = [table |-> <<>>, detected |-> <<"auto">>]
          ELSE \E k \in 1..Len(candidates) :
                  /\ CandidateSplits(k)
                  /\ out.auto.detected = <<candidates[k].name>>
                  /\ out.auto.table =
                        parseRowsSimple(Lines, candidates[k].delim, collapseSpacesOpt)
    /\ pc = "rendered" =>
          detected \in CandidateNames \cup {<<"auto">>, <<"csv">>, <<"xlsx">>}
                        \cup {<<"custom (">> \o d \o <<")">> : d \in Delimiters \ {<<>>}}

\* a render whose auto-detection found nothing on a non-empty input
C5_Witness ==
    /\ pc = "rendered"
    /\ importedTable = null /\ customDelimiter = <<>>
    /\ Len(Lines) > 0 /\ ~looksLikeCSV(Lines)
    /\ out.auto.detected = <<"auto">>
    /\ detected = <<"auto">>

PipeCount(line) == Cardinality({k \in 1..Len(line) : line[k] = "|"})

PipeInput ==
    /\ Len(Lines) > 0
    /\ \A i \in 1..Len(Lines) :
          /\ PipeCount(Lines[i]) >= 1
          /\ PipeCount(Lines[i]) = PipeCount(Lines[1])
          /\ ~includes(Lines[i], "\t") /\ ~includes(Lines[i], ";")

\* C6: when every line (of a non-empty input) has the same number, at least
\* one, of pipes and none has a tab or a semicolon, auto-detection returns
\* the label pipe and every line split on "|" (cells normalized when
\* collapseSpaces is on); the spaces candidate does not displace it.
C6_PipeDetection ==
    (Detected /\ PipeInput) =>
        /\ out.auto.detected = <<"pipe">>
        /\ out.auto.table = LiteralTable(Lines, <<"|">>)
        /\ (text = ExPipeText /\ collapseSpacesOpt) => out.auto.table = ExPipeTable

\* the example of the specification
C6_Witness ==
    /\ Detected /\ PipeInput
    /\ text = ExPipeText /\ collapseSpacesOpt
    /\ out.auto = [table |-> ExPipeTable, detected |-> <<"pipe">>]

(* ----------------- claims about markdown and scoring ------------------- *)

\* a cell as the claim has it rendered: CRLF and LF become one space
RECURSIVE NewlinesToSpaces(_)
NewlinesToSpaces(s) ==
    IF s = <<>> THEN <<>>
    ELSE IF Len(s) >= 2 /\ s[1] = "\r" /\ s[2] = "\n"
         THEN <<" ">> \o NewlinesToSpaces(SubSeq(s, 3, Len(s)))
    ELSE IF s[1] = "\n" THEN <<" ">> \o NewlinesToSpaces(Tail(s))
    ELSE <<s[1]>> \o NewlinesToSpaces(Tail(s))

\* the backslash in front of every pipe taken away again
RECURSIVE Unescape(_)
Unescape(s) ==
    IF s = <<>> THEN <<>>
    ELSE IF Len(s) >= 2 /\ s[1] = "\\" /\ s[2] = "|" THEN <<"|">> \o Unescape(SubSeq(s, 3, Len(s)))
    ELSE <<s[1]>> \o Unescape(Tail(s))

PipesEscaped(s) == \A k \in 1..Len(s) : s[k] = "|" => (k > 1 /\ s[k - 1] = "\\")

\* a rendered line is "| c1 | ... | cC |": its cells, or <<>> when it has
\* another shape
LineCells(line, C) ==
    IF \/ Len(line) < 4
       \/ SubSeq(line, 1, 2) # <<"|", " ">>
       \/ SubSeq(line, Len(line) - 1, Len(line)) # <<" ", "|">>
    THEN <<>>
    ELSE LET inner == SubSeq(line, 3, Len(line) - 2)
         IN  IF C = 0 THEN (IF inner = <<>> THEN <<>> ELSE <<inner>>)
             ELSE LiteralCells(inner, <<" ", "|", " ">>)

\* the line renders the row, padded to C cells, escaped
Renders(line, row, C) ==
    LET cells == LineCells(line, C)
    IN  /\ Len(line) >= 4
        /\ Len(cells) = C
        /\ \A j \in 1..C :
              /\ ~includes(cells[j], "\n")
              /\ PipesEscaped(cells[j])
              /\ Unescape(cells[j]) =
                    NewlinesToSpaces(IF j <= Len(row) THEN row[j] ELSE <<>>)

\* C9: a non-empty table of R rows and maximum row length C serializes to
\* R+1 lines: the first row, a separator of C "---" entries, the other
\* rows in order, each with C cells (short rows padded with ""), every
\* pipe of a cell behind a backslash and every newline (LF or CRLF) of a
\* cell turned into a space; the empty table serializes to "".
C9_MarkdownShape ==
    pc = "serialized" =>
        IF data = <<>> THEN out.md = <<>>
        ELSE LET R == Len(data)
                 C == Width(data)
                 mdLines == LiteralCells(out.md, <<"\n">>)
             IN  /\ Len(mdLines) = R + 1
                 /\ Renders(mdLines[1], data[1], C)
                 /\ LineCells(mdLines[2], C) = [j \in 1..C |-> <<"-", "-", "-">>]
                 /\ Len(mdLines[2]) >= 4
                 /\ \A i \in 2..R : Renders(mdLines[i + 1], data[i], C)
                 /\ data = ExMdIn => out.md = ExMdOut

\* a ragged table with a pipe and a newline in its cells
C9_Witness ==
    /\ pc = "serialized"
    /\ Len(data) = 2 /\ Len(data[1]) = 1 /\ Len(data[2]) = 2
    /\ data[2][1] = <<"|", "b">> /\ data[2][2] = <<"a", "\r", "\n">>
    /\ Len(LiteralCells(out.md, <<"\n">>)) = 3

RowLen(i) == Len(data[i])

\* among the rows of I: how many have the length of row i
FreqIn(I, i) == Cardinality({k \in I : RowLen(k) = RowLen(i)})

\* the most frequent row length among the rows of I, the first in row
\* order among equals
ModeIn(I) ==
    LET top == {i \in I : \A k \in I : FreqIn(I, k) <= FreqIn(I, i)}
    IN  RowLen(CHOOSE i \in top : \A k \in top : i <= k)

RECURSIVE SumOver(_, _)
SumOver(I, mode) ==
    IF I = {} THEN 0
    ELSE LET i == CHOOSE k \in I : TRUE
         IN  Abs(RowLen(i) - mode) + SumOver(I \ {i}, mode)

\* 10 * (rows of I whose length is not the mode) + sum of |length - mode|
ScoreOver(I) ==
    LET mode == ModeIn(I)
    IN  Finite(10 * Cardinality({i \in I : RowLen(i) # mode}) + SumOver(I, mode))

NoRealSplit == \A i \in 1..Len(data) : RowLen(i) <= 1

\* C10 as stated: infinity when no row has two cells; otherwise mode,
\* count and sum are taken over all the rows.
C10_Score_Original ==
    pc = "scored" =>
        out.score = IF NoRealSplit THEN Infinity ELSE ScoreOver(1..Len(data))

\* C10 amended: infinity when no row has two cells; otherwise rows without
\* a cell are left out, and mode (first in row order among equals), count
\* and sum are taken over the rows with at least one cell.
C10_Score ==
    pc = "scored" =>
        out.score = IF NoRealSplit THEN Infinity
                    ELSE ScoreOver({i \in 1..Len(data) : RowLen(i) > 0})

\* three lengths of equal frequency and a row without cells
C10_Witness ==
    /\ pc = "scored"
    /\ Len(data) = 3
    /\ RowLen(1) = 1 /\ RowLen(2) = 0 /\ RowLen(3) = 3
    /\ out.score = Finite(12)

(* --------------- claims about the candidate passes --------------------- *)

\* score a is at most score b
AtMost(a, b) == b.inf \/ (~a.inf /\ a.val <= b.val)

\* the earliest candidate among those of minimal score
Winner ==
    CHOOSE k \in 1..Len(candidates) :
        /\ \A j \in 1..Len(candidates) : AtMost(out.passes[k].s, out.passes[j].s)
        /\ \A j \in 1..(k - 1) : ~AtMost(out.passes[j].s, out.passes[k].s)

\* C11: when some candidate has a finite score, auto-detection returns the
\* candidate of minimal score, the earliest in the order tabs, pipe,
\* semicolon, spaces among equals.
C11_CandidateSelection ==
    (Detected /\ \E k \in 1..Len(candidates) : ~out.passes[k].s.inf) =>
        /\ out.auto.detected = <<candidates[Winner].name>>
        /\ out.auto.table = out.passes[Winner].parsed

\* tabs has a finite score and the later pipe candidate a strictly lower
\* one, and spaces ties with pipe
C11_Witness ==
    /\ Detected
    /\ ~out.passes[1].s.inf /\ ~out.passes[2].s.inf
    /\ out.passes[2].s.val < out.passes[1].s.val
    /\ out.passes[4].s = out.passes[2].s
    /\ out.auto.detected = <<"pipe">>

\* the positions of line inside a run of two or more spaces
RunPositions(line) ==
    {p \in 1..Len(line) :
        /\ line[p] = " "
        /\ \/ (p > 1 /\ line[p - 1] = " ")
           \/ (p < Len(line) /\ line[p + 1] = " ")}

\* the pieces of line between its runs of two or more spaces
SpaceRunCells(line) ==
    LET R == RunPositions(line)
        starts == {p \in R : p - 1 \notin R}
        ends == {p \in R : p + 1 \notin R}
        n == Cardinality(starts)
    IN  [k \in 1..(n + 1) |->
            SubSeq(line,
                   IF k = 1 THEN 1 ELSE Nth(ends, k - 1) + 1,
                   IF k = n + 1 THEN Len(line) ELSE Nth(starts, k) - 1)]

\* the single-delimiter-line rule: the first of tab, semicolon, pipe, run
\* of spaces that the line contains
PerLineCells(line) ==
    IF includes(line, "\t") THEN LiteralCells(line, <<"\t">>)
    ELSE IF includes(line, ";") THEN LiteralCells(line, <<";">>)
    ELSE IF includes(line, "|") THEN LiteralCells(line, <<"|">>)
    ELSE SpaceRunCells(line)

PerLineTable == [i \in 1..Len(Lines) |-> NormRow(PerLineCells(Lines[i]))]

\* C12 as stated: each of the four candidate passes splits every line by
\* the per-line rule, so the four passes split a line with a tab alike.
C12_PerLineRule_Original ==
    Detected => \A k \in 1..Len(candidates) : out.passes[k].parsed = PerLineTable

\* C12 amended: only the spaces pass splits every line by the per-line
\* rule (tab, semicolon, pipe, run of 2+ spaces, the first present); the
\* tabs, pipe and semicolon passes split every line on their own literal
\* delimiter, so a line with a tab is split on tab in the tabs pass and in
\* the spaces pass.
C12_PerLineRule ==
    Detected =>
        \A k \in 1..Len(candidates) :
            out.passes[k].parsed =
                IF candidates[k].delim = <<>> THEN PerLineTable
                ELSE LiteralTable(Lines, candidates[k].delim)

\* a line with a tab and a pipe: the tabs and spaces passes cut at the tab,
\* the pipe pass at the pipe
C12_Witness ==
    /\ Detected
    /\ Len(Lines) = 1 /\ includes(Lines[1], "\t") /\ includes(Lines[1], "|")
    /\ out.passes[1].parsed = out.passes[4].parsed
    /\ out.passes[2].parsed # out.passes[1].parsed
    /\ out.passes[2].parsed = LiteralTable(Lines, <<"|">>)

(* ------------------------ claims about the App ------------------------- *)

\* C13: once no read is pending, what is displayed comes from the input
\* supplied last: after a text file, a textarea edit or the example the
\* imported table is null and the text is that input; after an XLSX file
\* the imported table is its sheet.  (Stated for runs in which no load was
\* rejected and the last input was read successfully.)
C13_LatestInputWins ==
    (readers = {} /\ last.clean /\ last.input.kind # "none" /\ last.input.ok) =>
        IF last.input.kind = "xlsx"
        THEN /\ importedTable = [set |-> TRUE, rows |-> last.input.rows]
             /\ detected = <<"xlsx">>
        ELSE /\ importedTable = null
             /\ text = last.input.text
             /\ detected # <<"xlsx">>

\* C14: a load that loadFile rejects sets fileError and leaves the text,
\* the custom delimiter, the imported table and the displayed table as
\* they were before it.
C14_RejectedLoadFrame ==
    (last.op = "loadFile" /\ last.rejected) =>
        /\ fileError # ""
        /\ text = last.before.text
        /\ customDelimiter = last.before.customDelimiter
        /\ importedTable = last.before.importedTable
        /\ table = last.before.table
        /\ detected = last.before.detected

====
